---- MODULE Spec2Model ----
(***************************************************************************)
(* Vacareanu et al. (2015) ground-motion model, src/Vacareanu_2015.py.     *)
(*                                                                         *)
(* Numbers are fixed point.  A coefficient of Table 4 is held in units of  *)
(* 1/Scale (four decimals), a magnitude in tenths, a distance and a depth  *)
(* in km, a natural logarithm in units of 1/Scale, and every term of the   *)
(* mean in units of 1/(Scale*Scale).                                       *)
(*                                                                         *)
(* A numpy value is a record [shape, v]: a Python float is shape "scalar"  *)
(* with one element, an ndarray is shape "array", None is shape "none".    *)
(***************************************************************************)
EXTENDS Integers, Sequences, FiniteSets, TLC

\* ---------------------------------------------------------------- bounds
\* longest vs30 / backarc / rhypo array a caller passes
MaxN == 2
\* longest stddev_types sequence a caller passes
MaxTypes == 2

\* fixed-point unit of the coefficients
Scale == 10000

\* ------------------------------------------------- declared capabilities
TOTAL == "TOTAL"
INTER_EVENT == "INTER_EVENT"
INTRA_EVENT == "INTRA_EVENT"
\* a member of const.StdDev that this model does not declare
OTHER_STDDEV == "OTHER"

DEFINED_FOR_STANDARD_DEVIATION_TYPES == {TOTAL, INTER_EVENT, INTRA_EVENT}

\* keys of the rows of Table 4: the period in tenths of a second
TabulatedPeriods == {0, 1, 2, 3, 4, 5, 6, 7, 8, 9, 10, 12, 14, 16, 18, 20, 25, 30, 35, 40}

\* one row of Table 4
CoeffsRow(k) ==
  CASE k = 0 -> [c1 |-> 96231, c2 |-> 14232, c3 |-> -1555, c4 |-> -11316, c5 |-> -114, c6 |-> -24, c7 |-> -7,
                c8 |-> -835, c9 |-> 1589, c10 |-> 488, sigma_t |-> 6980, tau |-> 4060, sigma |-> 5680]
    [] k = 1 -> [c1 |-> 96981, c2 |-> 13679, c3 |-> -1423, c4 |-> -9889, c5 |-> -135, c6 |-> -26, c7 |-> -17,
                c8 |-> -1965, c9 |-> 1670, c10 |-> 20, sigma_t |-> 8060, tau |-> 4680, sigma |-> 6560]
    [] k = 2 -> [c1 |-> 100090, c2 |-> 13620, c3 |-> -1138, c4 |-> -10371, c5 |-> -127, c6 |-> -32, c7 |-> -4,
                c8 |-> -1547, c9 |-> 2861, c10 |-> 860, sigma_t |-> 7920, tau |-> 4690, sigma |-> 6380]
    [] k = 3 -> [c1 |-> 107033, c2 |-> 14580, c3 |-> -1187, c4 |-> -12340, c5 |-> -106, c6 |-> -26, c7 |-> 0,
                c8 |-> -1014, c9 |-> 2659, c10 |-> 991, sigma_t |-> 7830, tau |-> 4800, sigma |-> 6190]
    [] k = 4 -> [c1 |-> 107701, c2 |-> 15748, c3 |-> -1439, c4 |-> -13207, c5 |-> -93, c6 |-> -22, c7 |-> 5,
                c8 |-> -1076, c9 |-> 3062, c10 |-> 1183, sigma_t |-> 8100, tau |-> 5190, sigma |-> 6220]
    [] k = 5 -> [c1 |-> 92327, c2 |-> 16739, c3 |-> -1664, c4 |-> -10022, c5 |-> -100, c6 |-> -41, c7 |-> 7,
                c8 |-> -259, c9 |-> 2576, c10 |-> 722, sigma_t |-> 7670, tau |-> 4610, sigma |-> 6130]
    [] k = 6 -> [c1 |-> 86445, c2 |-> 17672, c3 |-> -1925, c4 |-> -8938, c5 |-> -99, c6 |-> -45, c7 |-> -4,
                c8 |-> -1038, c9 |-> 2181, c10 |-> 179, sigma_t |-> 7400, tau |-> 4290, sigma |-> 6030]
    [] k = 7 -> [c1 |-> 87134, c2 |-> 18500, c3 |-> -1990, c4 |-> -9780, c5 |-> -88, c6 |-> -39, c7 |-> 2,
                c8 |-> -1867, c9 |-> 1564, c10 |-> 6, sigma_t |-> 7350, tau |-> 4260, sigma |-> 5990]
    [] k = 8 -> [c1 |-> 90835, c2 |-> 19066, c3 |-> -2022, c4 |-> -11044, c5 |-> -78, c6 |-> -31, c7 |-> 5,
                c8 |-> -2901, c9 |-> 546, c10 |-> -1019, sigma_t |-> 7260, tau |-> 4170, sigma |-> 5940]
    [] k = 9 -> [c1 |-> 91274, c2 |-> 19662, c3 |-> -2465, c4 |-> -11437, c5 |-> -74, c6 |-> -31, c7 |-> 1,
                c8 |-> -2804, c9 |-> 884, c10 |-> -790, sigma_t |-> 7190, tau |-> 4030, sigma |-> 5960]
    [] k = 10 -> [c1 |-> 89987, c2 |-> 19964, c3 |-> -2658, c4 |-> -11226, c5 |-> -71, c6 |-> -31, c7 |-> -9,
                c8 |-> -2992, c9 |-> 739, c10 |-> -955, sigma_t |-> 7150, tau |-> 4000, sigma |-> 5920]
    [] k = 12 -> [c1 |-> 80465, c2 |-> 20432, c3 |-> -2241, c4 |-> -9654, c5 |-> -72, c6 |-> -41, c7 |-> -13,
                c8 |-> -2681, c9 |-> 1476, c10 |-> -412, sigma_t |-> 7130, tau |-> 3920, sigma |-> 5950]
    [] k = 14 -> [c1 |-> 70585, c2 |-> 21148, c3 |-> -2167, c4 |-> -8011, c5 |-> -78, c6 |-> -49, c7 |-> -13,
                c8 |-> -2566, c9 |-> 2009, c10 |-> -68, sigma_t |-> 7140, tau |-> 3920, sigma |-> 5970]
    [] k = 16 -> [c1 |-> 68329, c2 |-> 21668, c3 |-> -2418, c4 |-> -8036, c5 |-> -75, c6 |-> -47, c7 |-> -18,
                c8 |-> -2268, c9 |-> 2272, c10 |-> 211, sigma_t |-> 7320, tau |-> 4180, sigma |-> 6010]
    [] k = 18 -> [c1 |-> 64292, c2 |-> 21988, c3 |-> -2468, c4 |-> -7625, c5 |-> -73, c6 |-> -47, c7 |-> -20,
                c8 |-> -2464, c9 |-> 2200, c10 |-> 82, sigma_t |-> 7450, tau |-> 4270, sigma |-> 6110]
    [] k = 20 -> [c1 |-> 63876, c2 |-> 22151, c3 |-> -2289, c4 |-> -8004, c5 |-> -66, c6 |-> -43, c7 |-> -24,
                c8 |-> -2767, c9 |-> 2134, c10 |-> -91, sigma_t |-> 7440, tau |-> 4250, sigma |-> 6110]
    [] k = 25 -> [c1 |-> 44248, c2 |-> 22541, c3 |-> -2144, c4 |-> -4280, c5 |-> -79, c6 |-> -61, c7 |-> -31,
                c8 |-> -2924, c9 |-> 2108, c10 |-> -177, sigma_t |-> 7500, tau |-> 4200, sigma |-> 6220]
    [] k = 30 -> [c1 |-> 45395, c2 |-> 22812, c3 |-> -2256, c4 |-> -5340, c5 |-> -72, c6 |-> -54, c7 |-> -34,
                c8 |-> -3066, c9 |-> 1840, c10 |-> -387, sigma_t |-> 7650, tau |-> 4360, sigma |-> 6290]
    [] k = 35 -> [c1 |-> 47407, c2 |-> 22803, c3 |-> -2456, c4 |-> -6250, c5 |-> -65, c6 |-> -45, c7 |-> -41,
                c8 |-> -3728, c9 |-> 918, c10 |-> -1192, sigma_t |-> 7780, tau |-> 4360, sigma |-> 6450]
    [] k = 40 -> [c1 |-> 44928, c2 |-> 22796, c3 |-> -2580, c4 |-> -6215, c5 |-> -62, c6 |-> -41, c7 |-> -48,
                c8 |-> -3763, c9 |-> 512, c10 |-> -1428, sigma_t |-> 7920, tau |-> 4430, sigma |-> 6570]

\* the class attribute COEFFS
CoeffsTable == [k \in TabulatedPeriods |-> CoeffsRow(k)]

\* ------------------------------------------------------------ input sets
Callers == {1, 2}
\* the intensity measures the callers ask for: the row keyed 0.0 and SA(1.0)
ImtInputs == {0, 10}
\* Vs30 in m/s: below the clip, on the class boundary, inside class B, above the clip
Vs30Inputs == {150, 360, 400, 900}
\* hypocentral distances in km
RhypoInputs == {50, 100}
\* magnitudes in tenths
MagInputs == {60, 75}
\* focal depths in km
DepthInputs == {100}

Arrays(S) == UNION {[1..n -> S] : n \in 1..MaxN}
StdDevKinds == DEFINED_FOR_STANDARD_DEVIATION_TYPES \cup {OTHER_STDDEV}
StddevTypeSeqs == UNION {[1..n -> StdDevKinds] : n \in 0..MaxTypes}
\* every request: each intensity measure with each sequence of kinds
AllRequests == [imt : ImtInputs, stddev_types : StddevTypeSeqs]
\* the requests made on the batches of sites
BatchRequests == [imt : ImtInputs, stddev_types : {<<TOTAL>>, <<INTRA_EVENT, OTHER_STDDEV>>}]
\* a batch of n sites that share one value
Uniform(S) == UNION {[1..n -> {x}] : n \in 1..MaxN, x \in S}

\* --------------------------------------------------------- numpy values
None == [shape |-> "none", v |-> <<>>]
Err == [shape |-> "error", v |-> <<>>]
Scalar(x) == [shape |-> "scalar", v |-> <<x>>]
Array(s) == [shape |-> "array", v |-> s]
Size(a) == Len(a.v)

\* the arithmetic of one pair of elements
Apply(op, x, y) ==
  CASE op = "+" -> x + y
    [] op = "-" -> x - y
    [] op = "*" -> x * y

\* an element-wise binary operation with numpy's broadcasting: a scalar or a
\* one-element array stretches to the other operand's length, two arrays of
\* different lengths above one do not combine (ValueError)
Broadcast(op, a, b) ==
  IF a.shape = "error" \/ b.shape = "error" THEN Err
  ELSE IF a.shape = "scalar" /\ b.shape = "scalar" THEN Scalar(Apply(op, a.v[1], b.v[1]))
  ELSE LET n == Size(a)
           m == Size(b)
           len == IF n >= m THEN n ELSE m
       IN IF n # m /\ n # 1 /\ m # 1 THEN Err
          ELSE Array([i \in 1..len |-> Apply(op, a.v[IF n = 1 THEN 1 ELSE i],
                                                 b.v[IF m = 1 THEN 1 ELSE i])])

Add(a, b) == Broadcast("+", a, b)
Sub(a, b) == Broadcast("-", a, b)
Mul(a, b) == Broadcast("*", a, b)

\* natural logarithm in units of 1/Scale, of the distances of RhypoInputs
Ln(r) ==
  CASE r = 50 -> 39120
    [] r = 100 -> 46052

\* np.log
Log(a) == Array([i \in 1..Size(a) |-> Ln(a.v[i])])

\* a boolean array as numbers, as numpy's arithmetic reads it
AsNumber(b) == Array([i \in 1..Len(b) |-> IF b[i] THEN 1 ELSE 0])

\* ------------------------------------------------------------ the terms
_compute_magnitude_term(C, mag) ==
  C.c1 * Scale + C.c2 * (mag - 60) * (Scale \div 10)
               + C.c3 * (mag - 60) * (mag - 60) * (Scale \div 100)

\* the distance term with the fore-arc slope applied to every site
DistanceArcTermNoSplit(C, mag, backarc, rhypo) ==
  Add(Add(Mul(Scalar(C.c4), Log(Array(rhypo))),
          Mul(Mul(Scalar(C.c5 * Scale), AsNumber(backarc)), Array(rhypo))),
      Mul(Mul(Scalar(C.c6 * Scale), Scalar(1)), Array(rhypo)))

_compute_distance_arc_term(C, mag, backarc, rhypo) ==
  Add(Add(Mul(Scalar(C.c4), Log(Array(rhypo))),
          Mul(Mul(Scalar(C.c5 * Scale), AsNumber(backarc)), Array(rhypo))),
      Mul(Mul(Scalar(C.c6 * Scale), Sub(Scalar(1), AsNumber(backarc))), Array(rhypo)))

_compute_focal_depth_term(C, hypo_depth) == C.c7 * hypo_depth * Scale

Clip(x) == IF x > 800 THEN 800 ELSE IF x < 180 THEN 180 ELSE x

\* the clipping done on the caller's array itself, without the copy
ClipInPlace(vs30) ==
  [caller |-> [i \in 1..Len(vs30) |-> Clip(vs30[i])],
   star |-> [i \in 1..Len(vs30) |-> Clip(vs30[i])]]

\* lines 128-130: the caller's array after the statements, and vs_star
CopyAndClip(vs30) ==
  [caller |-> vs30, star |-> [i \in 1..Len(vs30) |-> Clip(vs30[i])]]

\* the comparison with the boundary left out of class C
IsClassCStrict(x) == x < 360

\* the truth value Python takes of the comparison vs_star <= 360.0
IsClassC(x) == x <= 360

\* lines 124-138 for an array whose comparison has a truth value
SiteClass(x) ==
  IF IsClassC(x) THEN [site_b |-> 0, site_c |-> 1, site_s |-> 0]
                 ELSE [site_b |-> 1, site_c |-> 0, site_s |-> 0]

SiteTerm(C, cls) ==
  (C.c8 * cls.site_b + C.c9 * cls.site_c + C.c10 * cls.site_s) * Scale

\* line 146 with the assertion compiled out
AssertStripped(stddev_type) == TRUE

\* line 146
AssertDefined(stddev_type) == stddev_type \in DEFINED_FOR_STANDARD_DEVIATION_TYPES

\* the loop body with tau and sigma exchanged
AppendStddevSwapped(C, stddevs, stddev_type) ==
  IF stddev_type = TOTAL THEN Append(stddevs, Scalar(C.sigma_t))
  ELSE IF stddev_type = INTER_EVENT THEN Append(stddevs, Scalar(C.sigma))
  ELSE IF stddev_type = INTRA_EVENT THEN Append(stddevs, Scalar(C.tau))
  ELSE stddevs

\* lines 147-152: the list after one iteration of the loop of _get_stddevs
AppendStddev(C, stddevs, stddev_type) ==
  IF stddev_type = TOTAL THEN Append(stddevs, Scalar(C.sigma_t))
  ELSE IF stddev_type = INTER_EVENT THEN Append(stddevs, Scalar(C.tau))
  ELSE IF stddev_type = INTRA_EVENT THEN Append(stddevs, Scalar(C.sigma))
  ELSE stddevs

\* the statements with the standard deviations selected first
StddevsFirstOrder ==
  <<"stddevs", "magnitude", "distance", "depth", "site", "sum", "return">>

\* the order of the statements of get_mean_and_stddevs
StatementOrder ==
  <<"magnitude", "distance", "depth", "site", "sum", "stddevs", "return">>

After(label) ==
  LET i == CHOOSE j \in 1..Len(StatementOrder) : StatementOrder[j] = label
  IN StatementOrder[i + 1]

\* ---------------------------------------------------------------- state
VARIABLES
  COEFFS,          \* the coefficient table shared by every call
  sites_vs30,      \* the caller-owned sites.vs30
  sites_backarc,   \* the caller-owned sites.backarc
  dists_rhypo,     \* the caller-owned dists.rhypo
  rup_mag,         \* rup.mag, in tenths
  rup_hypo_depth,  \* rup.hypo_depth
  workload,        \* which requests the callers make: "batch" or "all"
  pc,              \* per caller: the statement it is at
  imt,             \* per caller: the argument imt
  stddev_types,    \* per caller: the argument stddev_types
  magnitude_term, distance_term, depth_term, site_term,
  vs_star, site_b, site_c, site_s,
  mean, stddevs,
  pos,             \* per caller: the element the loop of _get_stddevs is at
  result,          \* per caller: what the call returned
  error            \* per caller: the exception the call raised

shared == <<COEFFS, sites_vs30, sites_backarc, dists_rhypo, rup_mag,
            rup_hypo_depth, workload>>
args == <<imt, stddev_types>>
terms == <<magnitude_term, distance_term, depth_term, site_term>>
siteLocals == <<vs_star, site_b, site_c, site_s>>
vars == <<shared, pc, args, terms, siteLocals, mean, stddevs, pos, result, error>>

NoResult == [mean |-> None, stddevs |-> <<>>]

\* line 89: C refers to the row of the shared table
C(t) == COEFFS[imt[t]]

\* the rows of the table the requests look up; no call reads another row
LookedUp == [k \in ImtInputs |-> CoeffsTable[k]]

\* the (imt, stddev_types) pairs the callers pass
Requests == IF workload = "all" THEN AllRequests ELSE BatchRequests

InitCallers ==
  /\ pc = [t \in Callers |-> "idle"]
  /\ imt = [t \in Callers |-> 0]
  /\ stddev_types = [t \in Callers |-> <<>>]
  /\ magnitude_term = [t \in Callers |-> None]
  /\ distance_term = [t \in Callers |-> None]
  /\ depth_term = [t \in Callers |-> None]
  /\ site_term = [t \in Callers |-> None]
  /\ vs_star = [t \in Callers |-> <<>>]
  /\ site_b = [t \in Callers |-> 0]
  /\ site_c = [t \in Callers |-> 0]
  /\ site_s = [t \in Callers |-> 0]
  /\ mean = [t \in Callers |-> None]
  /\ stddevs = [t \in Callers |-> <<>>]
  /\ pos = [t \in Callers |-> 1]
  /\ result = [t \in Callers |-> NoResult]
  /\ error = [t \in Callers |-> "none"]

\* one caller; vs30, backarc and rhypo of independent lengths
Init ==
  /\ COEFFS = LookedUp
  /\ sites_vs30 \in Arrays(Vs30Inputs)
  /\ sites_backarc \in Arrays(BOOLEAN)
  /\ dists_rhypo \in Arrays(RhypoInputs)
  /\ rup_mag \in MagInputs
  /\ rup_hypo_depth \in DepthInputs
  /\ workload = "batch"
  /\ InitCallers

\* a batch of one length whose sites share their backarc and rhypo
InitBatch(vs30s) ==
  /\ COEFFS = LookedUp
  /\ sites_vs30 \in vs30s
  /\ sites_backarc \in Uniform(BOOLEAN)
  /\ dists_rhypo \in Uniform(RhypoInputs)
  /\ Len(sites_vs30) = Len(sites_backarc)
  /\ Len(sites_vs30) = Len(dists_rhypo)
  /\ rup_mag \in MagInputs
  /\ rup_hypo_depth \in DepthInputs
  /\ InitCallers

\* one caller, every request
InitStd == InitBatch(Uniform(Vs30Inputs)) /\ workload = "all"

\* concurrent callers sharing sites, rup and dists
InitConc == InitBatch(Arrays(Vs30Inputs)) /\ workload = "batch"

\* ----------------------------------------------------------- the steps
Raise(t, exc) ==
  /\ pc' = [pc EXCEPT ![t] = "failed"]
  /\ error' = [error EXCEPT ![t] = exc]

\* entry of get_mean_and_stddevs and line 89
Call(t) ==
  /\ pc[t] = "idle"
  /\ \E req \in Requests :
       /\ imt' = [imt EXCEPT ![t] = req.imt]
       /\ stddev_types' = [stddev_types EXCEPT ![t] = req.stddev_types]
  /\ pc' = [pc EXCEPT ![t] = StatementOrder[1]]
  /\ UNCHANGED <<shared, terms, siteLocals, mean, stddevs, pos, result, error>>

\* the caller has taken the result or the exception; the frame is gone
Release(t) ==
  /\ pc[t] \in {"returned", "failed"}
  /\ pc' = [pc EXCEPT ![t] = "idle"]
  /\ imt' = [imt EXCEPT ![t] = 0]
  /\ stddev_types' = [stddev_types EXCEPT ![t] = <<>>]
  /\ magnitude_term' = [magnitude_term EXCEPT ![t] = None]
  /\ distance_term' = [distance_term EXCEPT ![t] = None]
  /\ depth_term' = [depth_term EXCEPT ![t] = None]
  /\ site_term' = [site_term EXCEPT ![t] = None]
  /\ vs_star' = [vs_star EXCEPT ![t] = <<>>]
  /\ site_b' = [site_b EXCEPT ![t] = 0]
  /\ site_c' = [site_c EXCEPT ![t] = 0]
  /\ site_s' = [site_s EXCEPT ![t] = 0]
  /\ mean' = [mean EXCEPT ![t] = None]
  /\ stddevs' = [stddevs EXCEPT ![t] = <<>>]
  /\ pos' = [pos EXCEPT ![t] = 1]
  /\ result' = [result EXCEPT ![t] = NoResult]
  /\ error' = [error EXCEPT ![t] = "none"]
  /\ UNCHANGED shared

\* line 91
MagnitudeTerm(t) ==
  /\ pc[t] = "magnitude"
  /\ magnitude_term' = [magnitude_term EXCEPT
                          ![t] = Scalar(_compute_magnitude_term(C(t), rup_mag))]
  /\ pc' = [pc EXCEPT ![t] = After("magnitude")]
  /\ UNCHANGED <<shared, args, distance_term, depth_term, site_term, siteLocals,
                 mean, stddevs, pos, result, error>>

\* line 92
DistanceArcTerm(t) ==
  /\ pc[t] = "distance"
  /\ LET d == _compute_distance_arc_term(C(t), rup_mag, sites_backarc, dists_rhypo)
     IN IF d.shape = "error"
        THEN /\ Raise(t, "ValueError")
             /\ UNCHANGED distance_term
        ELSE /\ distance_term' = [distance_term EXCEPT ![t] = d]
             /\ pc' = [pc EXCEPT ![t] = After("distance")]
             /\ UNCHANGED error
  /\ UNCHANGED <<shared, args, magnitude_term, depth_term, site_term, siteLocals,
                 mean, stddevs, pos, result>>

\* line 93
FocalDepthTerm(t) ==
  /\ pc[t] = "depth"
  /\ depth_term' = [depth_term EXCEPT
                      ![t] = Scalar(_compute_focal_depth_term(C(t), rup_hypo_depth))]
  /\ pc' = [pc EXCEPT ![t] = After("depth")]
  /\ UNCHANGED <<shared, args, magnitude_term, distance_term, site_term, siteLocals,
                 mean, stddevs, pos, result, error>>

\* line 94: _compute_site_response_term.  The if of line 133 takes the truth
\* value of an array, which only a one-element array has.
SiteResponseTerm(t) ==
  /\ pc[t] = "site"
  /\ LET cc == CopyAndClip(sites_vs30)
     IN /\ sites_vs30' = cc.caller
        /\ vs_star' = [vs_star EXCEPT ![t] = cc.star]
        /\ IF Len(cc.star) = 1
           THEN LET cls == SiteClass(cc.star[1])
                IN /\ site_b' = [site_b EXCEPT ![t] = cls.site_b]
                   /\ site_c' = [site_c EXCEPT ![t] = cls.site_c]
                   /\ site_s' = [site_s EXCEPT ![t] = cls.site_s]
                   /\ site_term' = [site_term EXCEPT ![t] = Scalar(SiteTerm(C(t), cls))]
                   /\ pc' = [pc EXCEPT ![t] = After("site")]
                   /\ UNCHANGED error
           ELSE /\ Raise(t, "ValueError")
                /\ UNCHANGED <<site_b, site_c, site_s, site_term>>
  /\ UNCHANGED <<COEFFS, sites_backarc, dists_rhypo, rup_mag, rup_hypo_depth,
                 workload, args, magnitude_term, distance_term, depth_term,
                 mean, stddevs, pos, result>>

\* lines 91-94: the sum of the four terms
SumMean(t) ==
  /\ pc[t] = "sum"
  /\ mean' = [mean EXCEPT ![t] =
                Add(Add(Add(magnitude_term[t], distance_term[t]), depth_term[t]),
                    site_term[t])]
  /\ pc' = [pc EXCEPT ![t] = After("sum")]
  /\ UNCHANGED <<shared, args, terms, siteLocals, stddevs, pos, result, error>>

\* line 95: one iteration of the loop of _get_stddevs, or its end
GetStddevs(t) ==
  /\ pc[t] = "stddevs"
  /\ IF pos[t] > Len(stddev_types[t])
     THEN /\ pc' = [pc EXCEPT ![t] = After("stddevs")]
          /\ UNCHANGED <<stddevs, pos, error>>
     ELSE IF ~AssertDefined(stddev_types[t][pos[t]])
     THEN /\ Raise(t, "AssertionError")
          /\ UNCHANGED <<stddevs, pos>>
     ELSE /\ stddevs' = [stddevs EXCEPT
                           ![t] = AppendStddev(C(t), stddevs[t], stddev_types[t][pos[t]])]
          /\ pos' = [pos EXCEPT ![t] = pos[t] + 1]
          /\ UNCHANGED <<pc, error>>
  /\ UNCHANGED <<shared, args, terms, siteLocals, mean, result>>

\* line 96
Return(t) ==
  /\ pc[t] = "return"
  /\ result' = [result EXCEPT ![t] = [mean |-> mean[t], stddevs |-> stddevs[t]]]
  /\ pc' = [pc EXCEPT ![t] = "returned"]
  /\ UNCHANGED <<shared, args, terms, siteLocals, mean, stddevs, pos, error>>

Step(t) ==
  \/ Call(t)
  \/ MagnitudeTerm(t)
  \/ DistanceArcTerm(t)
  \/ FocalDepthTerm(t)
  \/ SiteResponseTerm(t)
  \/ SumMean(t)
  \/ GetStddevs(t)
  \/ Return(t)
  \/ Release(t)

Next == Step(1)
NextConc == \E t \in Callers : Step(t)

Spec == Init /\ [][Next]_vars
StdSpec == InitStd /\ [][Next]_vars
ConcSpec == InitConc /\ [][NextConc]_vars

\* get_mean_and_stddevs as one function of its arguments: what a call that
\* runs alone raises or returns
RunAlone(vs30, backarc, rhypo, mag, hypo_depth, i, types) ==
  LET row == CoeffsRow(i)
      d == _compute_distance_arc_term(row, mag, backarc, rhypo)
      m == Add(Add(Add(Scalar(_compute_magnitude_term(row, mag)), d),
                   Scalar(_compute_focal_depth_term(row, hypo_depth))),
               Scalar(SiteTerm(row, SiteClass(Clip(vs30[1])))))
      s == [k \in 1..Len(types) |->
              Scalar(IF types[k] = TOTAL THEN row.sigma_t
                     ELSE IF types[k] = INTER_EVENT THEN row.tau ELSE row.sigma)]
  IN IF d.shape = "error" \/ Len(vs30) # 1
     THEN [outcome |-> "ValueError", value |-> NoResult]
     ELSE IF \E k \in 1..Len(types) : types[k] \notin DEFINED_FOR_STANDARD_DEVIATION_TYPES
     THEN [outcome |-> "AssertionError", value |-> NoResult]
     ELSE [outcome |-> "returned", value |-> [mean |-> m, stddevs |-> s]]

\* ------------------------------------------------------------ the claims
Supported(types) ==
  \A k \in 1..Len(types) : types[k] \in DEFINED_FOR_STANDARD_DEVIATION_TYPES

\* vs30, backarc and rhypo all have the same length
SameLength ==
  /\ Len(sites_vs30) = Len(sites_backarc)
  /\ Len(sites_vs30) = Len(dists_rhypo)

\* the call of caller t has gone through _compute_site_response_term
PastSiteTerm(t) ==
  \/ site_term[t] # None
  \/ pc[t] = "failed" /\ vs_star[t] # <<>>

\* element i of a numpy value added into an array
At(a, i) == IF a.shape = "scalar" THEN a.v[1] ELSE a.v[i]

\* the coefficient the table gives a kind
SigmaOf(row, kind) ==
  CASE kind = TOTAL -> row.sigma_t
    [] kind = INTER_EVENT -> row.tau
    [] kind = INTRA_EVENT -> row.sigma

\* C1: on a batch of N >= 1 sites the call gets through the site-response
\* term without an error, and the site term added to mean[i] is c9 when
\* clip(vs30[i], 180, 800) <= 360 and c8 otherwise, whatever the other sites' Vs30.
C1_SiteTermPerSite ==
  \A t \in Callers :
    (SameLength /\ PastSiteTerm(t)) =>
      /\ error[t] # "ValueError"
      /\ \A i \in 1..Len(sites_vs30) :
           At(site_term[t], i) =
             (IF Clip(sites_vs30[i]) <= 360 THEN CoeffsRow(imt[t]).c9
                                            ELSE CoeffsRow(imt[t]).c8) * Scale

\* C2: a call that returns on a batch of N sites returns a mean array of
\* length N and, for each requested kind, an array of length N, never a bare scalar.
C2_ArraysOfLengthN ==
  \A t \in Callers :
    (SameLength /\ pc[t] = "returned") =>
      /\ result[t].mean.shape = "array"
      /\ Size(result[t].mean) = Len(sites_vs30)
      /\ Len(result[t].stddevs) = Len(stddev_types[t])
      /\ \A k \in 1..Len(result[t].stddevs) :
           /\ result[t].stddevs[k].shape = "array"
           /\ Size(result[t].stddevs[k]) = Len(sites_vs30)

\* C3: _get_stddevs appends one entry per requested kind, in the order
\* requested: sigma_t for TOTAL, tau for INTER_EVENT, sigma for INTRA_EVENT;
\* when the loop has ended the list is as long as the request.
C3_StddevsInOrder ==
  \A t \in Callers :
    Supported(stddev_types[t]) =>
      /\ Len(stddevs[t]) = pos[t] - 1
      /\ Len(stddevs[t]) <= Len(stddev_types[t])
      /\ \A k \in 1..Len(stddevs[t]) :
           stddevs[t][k] = Scalar(SigmaOf(CoeffsRow(imt[t]), stddev_types[t][k]))
      /\ pc[t] \in {"return", "returned"} => Len(stddevs[t]) = Len(stddev_types[t])
      /\ pc[t] = "returned" => result[t].stddevs = stddevs[t]

C3_Witness ==
  /\ pc[1] = "returned"
  /\ stddev_types[1] = <<INTRA_EVENT, TOTAL>>
  /\ Len(result[1].stddevs) = 2

\* the mean a call returns on the batch with backarc set at site j, if it returns
FlippedMean(t, j) ==
  RunAlone(sites_vs30, [sites_backarc EXCEPT ![j] = TRUE], dists_rhypo, rup_mag,
           rup_hypo_depth, imt[t], stddev_types[t]).value.mean

\* C4: a back-arc site has slope c5 and a fore-arc site slope c6; setting
\* backarc at one site j changes the distance term of j by (c5 - c6) * rhypo[j]
\* and leaves the distance term, and the mean of a call that returns, of every
\* other site as it was.
C4_BackarcSplitPerSite ==
  \A t \in Callers :
    (distance_term[t] # None /\ Len(sites_backarc) = Len(dists_rhypo)) =>
      LET row == CoeffsRow(imt[t])
          N == Len(dists_rhypo)
      IN /\ Size(distance_term[t]) = N
         /\ \A i \in 1..N :
              distance_term[t].v[i] =
                row.c4 * Ln(dists_rhypo[i])
                + (IF sites_backarc[i] THEN row.c5 ELSE row.c6) * dists_rhypo[i] * Scale
         /\ \A j \in 1..N :
              ~sites_backarc[j] =>
                LET flipped == _compute_distance_arc_term(row, rup_mag,
                                 [sites_backarc EXCEPT ![j] = TRUE], dists_rhypo)
                IN /\ flipped.v[j] - distance_term[t].v[j]
                        = (row.c5 - row.c6) * dists_rhypo[j] * Scale
                   /\ \A i \in 1..N : i # j => flipped.v[i] = distance_term[t].v[i]
                   /\ pc[t] = "returned" =>
                        \A i \in 1..N : i # j =>
                          FlippedMean(t, j).v[i] = result[t].mean.v[i]

C4_Witness ==
  /\ pc[1] = "returned"
  /\ sites_backarc = <<FALSE, TRUE>>
  /\ dists_rhypo = <<50, 100>>
  /\ Size(result[1].mean) = 2

\* C5: a call whose stddev_types holds an unsupported kind, at any position,
\* never reaches its return statement and hands the caller no value.
C5_UnsupportedNeverReturns ==
  \A t \in Callers :
    ~Supported(stddev_types[t]) =>
      /\ pc[t] \notin {"return", "returned"}
      /\ result[t] = NoResult

C5_Witness ==
  /\ pc[1] = "failed"
  /\ error[1] = "AssertionError"
  /\ stddev_types[1] = <<TOTAL, OTHER_STDDEV>>
  /\ Len(stddevs[1]) = 1
  /\ result[1] = NoResult

\* C6: for a single-site Vs30, vs_star is the value clipped into [180, 800];
\* class C alone is selected when it is at most 360 and class B alone when it
\* is above; site_s is 0, so the site term is c9 or c8 and never holds c10.
C6_OneSiteClass ==
  \A t \in Callers :
    (Len(sites_vs30) = 1 /\ site_term[t] # None) =>
      LET x == sites_vs30[1]
          clipped == IF x < 180 THEN 180 ELSE IF x > 800 THEN 800 ELSE x
          row == CoeffsRow(imt[t])
      IN /\ vs_star[t] = <<clipped>>
         /\ clipped <= 360 => (site_c[t] = 1 /\ site_b[t] = 0)
         /\ clipped > 360 => (site_b[t] = 1 /\ site_c[t] = 0)
         /\ site_b[t] + site_c[t] = 1
         /\ site_s[t] = 0
         /\ site_term[t] = Scalar((IF clipped <= 360 THEN row.c9 ELSE row.c8) * Scale)

C6_Witness ==
  /\ sites_vs30 = <<900>>
  /\ vs_star[1] = <<800>>
  /\ site_b[1] = 1
  /\ site_c[1] = 0
  /\ site_term[1] # None

\* what the call of caller t has come to, once it has ended
Outcome(t) ==
  [outcome |-> IF pc[t] = "returned" THEN "returned" ELSE error[t],
   value |-> result[t]]

\* C7: no step of a call changes the coefficient table or the caller's
\* vs30, backarc, rhypo, mag and hypo_depth, and whatever the other caller
\* does meanwhile, a call ends as the same call run alone ends.
C7_NoSharedMutation ==
  /\ [][/\ COEFFS' = COEFFS
        /\ sites_vs30' = sites_vs30
        /\ sites_backarc' = sites_backarc
        /\ dists_rhypo' = dists_rhypo
        /\ rup_mag' = rup_mag
        /\ rup_hypo_depth' = rup_hypo_depth]_vars
  /\ [](\A t \in Callers :
          pc[t] \in {"returned", "failed"} =>
            Outcome(t) = RunAlone(sites_vs30, sites_backarc, dists_rhypo, rup_mag,
                                  rup_hypo_depth, imt[t], stddev_types[t]))

C7_Witness ==
  /\ sites_vs30 = <<900>>
  /\ pc[1] = "returned"
  /\ pc[2] = "sum"
  /\ vs_star[2] = <<800>>
  /\ imt[1] # imt[2]

\* C8: when vs30, backarc and rhypo are not all of one length the call
\* returns nothing.
C8_MismatchedLengthsFail ==
  \A t \in Callers : ~SameLength => pc[t] # "returned"

\* the position of the first unsupported kind of a request that has one
FirstUnsupported(types) ==
  CHOOSE k \in 1..Len(types) :
    /\ types[k] \notin DEFINED_FOR_STANDARD_DEVIATION_TYPES
    /\ \A h \in 1..(k - 1) : types[h] \in DEFINED_FOR_STANDARD_DEVIATION_TYPES

\* C10 as stated: when the unsupported kind is raised, no term of the mean
\* has been evaluated and no standard deviation has been appended.
C10_FailFast ==
  \A t \in Callers :
    error[t] = "AssertionError" =>
      /\ magnitude_term[t] = None
      /\ distance_term[t] = None
      /\ depth_term[t] = None
      /\ site_term[t] = None
      /\ stddevs[t] = <<>>

\* C10 amended: when the unsupported kind is raised, the four terms have been
\* evaluated and summed, an entry has been appended for each kind before the
\* first unsupported one, and the caller is handed nothing.
C10_FailsInsideLoop ==
  \A t \in Callers :
    error[t] = "AssertionError" =>
      /\ magnitude_term[t] # None
      /\ distance_term[t] # None
      /\ depth_term[t] # None
      /\ site_term[t] # None
      /\ mean[t] # None
      /\ Len(stddevs[t]) = FirstUnsupported(stddev_types[t]) - 1
      /\ result[t] = NoResult

C10_Witness ==
  /\ error[1] = "AssertionError"
  /\ stddev_types[1] = <<INTER_EVENT, OTHER_STDDEV>>
  /\ stddevs[1] = <<Scalar(CoeffsRow(imt[1]).tau)>>
  /\ mean[1] # None
====
